---- MODULE Spec2Model ----
(***************************************************************************)
(* State-machine model of server.py: the fast producer (fast_producer),    *)
(* the fixed-rate pacer (strict_pacer), the two consumer tracks            *)
(* (ConsumerVideoTrack / ConsumerAudioTrack) and the four asyncio queues   *)
(* that connect them.  One action per await of each coroutine, and one    *)
(* per step of the producer's demux, decode and slicing loops; the         *)
(* synchronous code that follows an await is part of the action that       *)
(* completes the await.                                                    *)
(*                                                                         *)
(* Time is an integer number of ticks; one frame period (1/FPS seconds)    *)
(* is TicksPerFrame ticks.  Sample counts and pts values are the real      *)
(* numbers of the program.                                                 *)
(***************************************************************************)
EXTENDS Integers, Sequences, FiniteSets, TLC

\* ---------------------------------------------------------------- bounds
MaxImages == 2
MaxPackets == 2
TicksPerFrame == 2

\* ------------------------------------------------------ program constants
FPS == 25
AUDIO_RATE == 48000
CHUNK_SIZE == AUDIO_RATE \div FPS
VIDEO_TICKS == 3600
VIDEO_CLOCK == 90000

\* Ticks in one second, and the ticks the clock is followed after the start.
TicksPerSec == FPS * TicksPerFrame
Span == TicksPerFrame * MaxImages

\* What time.time() reads when the session is set up: one second.
ClockOrigin == TicksPerSec

Kinds == {"video", "audio"}

\* ---------------------------------------------------------------- values
\* The end-of-stream sentinel (Python None) and the frames of each kind.
None == [kind |-> "None", pts |-> 0, tb |-> 1, samples |-> 0]
Unset == [kind |-> "unset", pts |-> 0, tb |-> 1, samples |-> 0]

AudioPts_mut(c) == (c + 1) * CHUNK_SIZE
AudioPts(c) == c * CHUNK_SIZE

VideoPts_mut(c) == (c + 1) * VIDEO_TICKS
VideoPts(c) == c * VIDEO_TICKS

MkAudioFrame(c) ==
    [kind |-> "audio", pts |-> AudioPts(c), tb |-> AUDIO_RATE, samples |-> CHUNK_SIZE]
MkVideoFrame(c) ==
    [kind |-> "video", pts |-> VideoPts(c), tb |-> VIDEO_CLOCK, samples |-> 0]

IsFrame(x) == x.kind \in Kinds

\* What one demuxed packet decodes and resamples to: no frame, a frame of
\* half a chunk, a frame of two chunks, or the two one after the other.
HalfChunk == CHUNK_SIZE \div 2
TwoChunks == 2 * CHUNK_SIZE
Packets == {<< >>, <<HalfChunk>>, <<TwoChunks>>, <<HalfChunk, TwoChunks>>}

VARIABLES
    \* inputs
    total_frames,
    \* clock and session
    now, closed,
    \* the four queues
    raw_v_q, raw_a_q, slow_v_q, slow_a_q,
    \* fast_producer
    prodPc, packetsRead, packet, fifo, frame_idx, pts_counter, audio_frame, video_frame,
    \* strict_pacer
    pacerPc, start_time, frame_count, v_frame, a_frame, wakeAt,
    \* consumer tracks
    recvPc, stopped, received,
    \* history: everything ever put on each queue
    rawHistV, rawHistA, slowHistV, slowHistA,
    \* history: a full chunk was left in the fifo when the producer stopped slicing
    audioLeft

inputVars == <<total_frames>>
queueVars == <<raw_v_q, raw_a_q, slow_v_q, slow_a_q>>
prodVars == <<prodPc, packetsRead, packet, fifo, frame_idx, pts_counter, audio_frame, video_frame>>
pacerVars == <<pacerPc, start_time, frame_count, v_frame, a_frame, wakeAt>>
consVars == <<recvPc, stopped, received>>
histVars == <<rawHistV, rawHistA, slowHistV, slowHistA, audioLeft>>
vars == <<inputVars, now, closed, queueVars, prodVars, pacerVars, consVars, histVars>>

Init ==
    /\ total_frames \in 0..MaxImages
    /\ now = ClockOrigin
    /\ closed = FALSE
    /\ raw_v_q = << >> /\ raw_a_q = << >> /\ slow_v_q = << >> /\ slow_a_q = << >>
    /\ prodPc = "start" /\ packetsRead = 0 /\ packet = << >> /\ fifo = 0
    /\ frame_idx = 0 /\ pts_counter = 0
    /\ audio_frame = Unset /\ video_frame = Unset
    /\ pacerPc = "start" /\ start_time = 0 /\ frame_count = 0
    /\ v_frame = Unset /\ a_frame = Unset /\ wakeAt = 0
    /\ recvPc = [k \in Kinds |-> "idle"]
    /\ stopped = [k \in Kinds |-> FALSE]
    /\ received = [k \in Kinds |-> << >>]
    /\ rawHistV = << >> /\ rawHistA = << >> /\ slowHistV = << >> /\ slowHistA = << >>
    /\ audioLeft = FALSE

\* ------------------------------------------------------------------ clock
\* Time passes.  Only the pacer reads the clock, and only relative to its
\* start_time, so the clock is followed from the moment the pacer starts,
\* for Span ticks or for as long as the pacer is asleep waiting for its
\* target, and no more once the pacer has halted.
Tick ==
    /\ pacerPc \notin {"start", "done"}
    /\ now < start_time + Span \/ (pacerPc = "sleep" /\ now < wakeAt)
    /\ now' = now + 1
    /\ UNCHANGED <<inputVars, closed, queueVars, prodVars, pacerVars, consVars, histVars>>

\* ---------------------------------------------------------- fast_producer
\* Everything the producer leaves alone.
ProdFrame == <<inputVars, now, closed, slow_v_q, slow_a_q, pacerVars, consVars, slowHistV, slowHistA>>

\* The coroutine has returned or raised: its locals are gone.
ProducerLocalsGone ==
    /\ packetsRead' = 0 /\ packet' = << >> /\ fifo' = 0
    /\ frame_idx' = 0 /\ pts_counter' = 0
    /\ audio_frame' = Unset /\ video_frame' = Unset

\* av.open, AudioResampler, AudioFifo, os.listdir: an unreadable source
\* raises and ends the task.
ProducerStart ==
    /\ prodPc = "start"
    /\ \E ok \in BOOLEAN : prodPc' = IF ok THEN "demux" ELSE "failed"
    /\ UNCHANGED <<packetsRead, packet, fifo, frame_idx, pts_counter, audio_frame, video_frame>>
    /\ UNCHANGED <<raw_v_q, raw_a_q, rawHistV, rawHistA, audioLeft>>
    /\ UNCHANGED ProdFrame

\* for packet in container.demux(audio_stream) / packet.decode(): the source
\* is exhausted (after MaxPackets packets at the latest), or it yields one
\* more packet, which decodes to some frames or raises a decode error.
ProducerDemux ==
    /\ prodPc = "demux"
    /\ \/ /\ prodPc' = "eos_a"
          /\ audioLeft' = (fifo >= CHUNK_SIZE)
          /\ UNCHANGED <<packetsRead, packet, fifo, frame_idx, pts_counter, audio_frame, video_frame>>
       \/ /\ packetsRead < MaxPackets
          /\ \/ /\ prodPc' = "frame"
                /\ packetsRead' = packetsRead + 1
                /\ packet' \in Packets
                /\ UNCHANGED <<fifo, frame_idx, pts_counter, audio_frame, video_frame>>
             \/ /\ prodPc' = "failed"
                /\ ProducerLocalsGone
          /\ UNCHANGED audioLeft
    /\ UNCHANGED <<raw_v_q, raw_a_q, rawHistV, rawHistA>>
    /\ UNCHANGED ProdFrame

\* The break after a packet's frames: no image left ends the demux loop.
ImagesExhausted_mut(idx, total) == FALSE
ImagesExhausted(idx, total) == idx >= total

\* for raw_frame in packet.decode(): resample and fifo.write; after the last
\* frame of the packet, "if frame_idx >= total_frames: break".
ProducerFrame ==
    /\ prodPc = "frame"
    /\ IF packet = << >>
       THEN /\ IF ImagesExhausted(frame_idx, total_frames)
               THEN prodPc' = "eos_a" /\ audioLeft' = (fifo >= CHUNK_SIZE)
               ELSE prodPc' = "demux" /\ UNCHANGED audioLeft
            /\ UNCHANGED <<packet, fifo>>
       ELSE /\ fifo' = fifo + Head(packet)
            /\ packet' = Tail(packet)
            /\ prodPc' = "slice"
            /\ UNCHANGED audioLeft
    /\ UNCHANGED <<packetsRead, frame_idx, pts_counter, audio_frame, video_frame>>
    /\ UNCHANGED <<raw_v_q, raw_a_q, rawHistV, rawHistA>>
    /\ UNCHANGED ProdFrame

\* while fifo.samples >= CHUNK_SIZE: if frame_idx >= total_frames: break
SliceGuard_mut(samples, idx, total) == samples >= CHUNK_SIZE
SliceGuard(samples, idx, total) == samples >= CHUNK_SIZE /\ ~(idx >= total)

\* fifo.read(n): the number of samples taken off the fifo.  Without a size
\* AudioFifo.read returns everything it holds; with one it returns a frame
\* of n samples, or None (nothing taken) when fewer are held.
FifoRead_mut(avail, n) == avail
FifoRead(avail, n) == IF n = 0 THEN avail ELSE IF avail >= n THEN n ELSE 0

\* One pass of the slicing loop up to the first put: fifo.read(CHUNK_SIZE),
\* cv2.imread, frame_idx += 1, the timestamps.  An unreadable image makes
\* VideoFrame.from_ndarray raise, and a read that returned None makes the
\* assignment of its pts raise: either ends the task.
ProducerSlice ==
    /\ prodPc = "slice"
    /\ IF SliceGuard(fifo, frame_idx, total_frames)
       THEN \/ /\ FifoRead(fifo, CHUNK_SIZE) > 0
               /\ fifo' = fifo - FifoRead(fifo, CHUNK_SIZE)
               /\ frame_idx' = frame_idx + 1
               /\ audio_frame' = [MkAudioFrame(pts_counter) EXCEPT
                                     !.samples = FifoRead(fifo, CHUNK_SIZE)]
               /\ video_frame' = MkVideoFrame(pts_counter)
               /\ prodPc' = "put_a"
               /\ UNCHANGED <<packetsRead, packet, pts_counter>>
            \/ /\ prodPc' = "failed"
               /\ ProducerLocalsGone
       ELSE /\ prodPc' = "frame"
            /\ UNCHANGED <<packetsRead, packet, fifo, frame_idx, pts_counter, audio_frame, video_frame>>
    /\ UNCHANGED <<raw_v_q, raw_a_q, rawHistV, rawHistA, audioLeft>>
    /\ UNCHANGED ProdFrame

\* await raw_a_q.put(audio_frame)
ProducerPutA ==
    /\ prodPc = "put_a"
    /\ raw_a_q' = Append(raw_a_q, audio_frame)
    /\ rawHistA' = Append(rawHistA, audio_frame)
    /\ prodPc' = "put_v"
    /\ UNCHANGED <<packetsRead, packet, fifo, frame_idx, pts_counter, audio_frame, video_frame>>
    /\ UNCHANGED <<raw_v_q, rawHistV, audioLeft>>
    /\ UNCHANGED ProdFrame

\* await raw_v_q.put(video_frame); pts_counter += 1
ProducerPutV ==
    /\ prodPc = "put_v"
    /\ raw_v_q' = Append(raw_v_q, video_frame)
    /\ rawHistV' = Append(rawHistV, video_frame)
    /\ pts_counter' = pts_counter + 1
    /\ prodPc' = "sleep"
    /\ UNCHANGED <<packetsRead, packet, fifo, frame_idx, audio_frame, video_frame>>
    /\ UNCHANGED <<raw_a_q, rawHistA, audioLeft>>
    /\ UNCHANGED ProdFrame

\* await asyncio.sleep(0.001), then back to the while test
ProducerSleep ==
    /\ prodPc = "sleep"
    /\ prodPc' = "slice"
    /\ UNCHANGED <<packetsRead, packet, fifo, frame_idx, pts_counter, audio_frame, video_frame>>
    /\ UNCHANGED <<raw_v_q, raw_a_q, rawHistV, rawHistA, audioLeft>>
    /\ UNCHANGED ProdFrame

\* await raw_a_q.put(None)
ProducerEosA_mut ==
    /\ prodPc = "eos_a"
    /\ prodPc' = "eos_v"
    /\ UNCHANGED <<packetsRead, packet, fifo, frame_idx, pts_counter, audio_frame, video_frame>>
    /\ UNCHANGED <<raw_a_q, rawHistA, raw_v_q, rawHistV, audioLeft>>
    /\ UNCHANGED ProdFrame
ProducerEosA ==
    /\ prodPc = "eos_a"
    /\ raw_a_q' = Append(raw_a_q, None)
    /\ rawHistA' = Append(rawHistA, None)
    /\ prodPc' = "eos_v"
    /\ UNCHANGED <<packetsRead, packet, fifo, frame_idx, pts_counter, audio_frame, video_frame>>
    /\ UNCHANGED <<raw_v_q, rawHistV, audioLeft>>
    /\ UNCHANGED ProdFrame

\* await raw_v_q.put(None); the task returns
ProducerEosV_mut ==
    /\ prodPc = "eos_v"
    /\ prodPc' = "done"
    /\ ProducerLocalsGone
    /\ UNCHANGED <<raw_v_q, rawHistV, raw_a_q, rawHistA, audioLeft>>
    /\ UNCHANGED ProdFrame
ProducerEosV ==
    /\ prodPc = "eos_v"
    /\ raw_v_q' = Append(raw_v_q, None)
    /\ rawHistV' = Append(rawHistV, None)
    /\ prodPc' = "done"
    /\ ProducerLocalsGone
    /\ UNCHANGED <<raw_a_q, rawHistA, audioLeft>>
    /\ UNCHANGED ProdFrame

Producer ==
    \/ ProducerStart \/ ProducerDemux \/ ProducerFrame \/ ProducerSlice
    \/ ProducerPutA \/ ProducerPutV \/ ProducerSleep
    \/ ProducerEosA \/ ProducerEosV

\* ----------------------------------------------------------- strict_pacer
\* Everything the pacer leaves alone.
PacerFrame == <<inputVars, now, closed, prodVars, consVars, rawHistV, rawHistA, audioLeft>>

\* frame_duration = 1.0 / FPS, in ticks
frame_duration == TicksPerSec \div FPS

\* target_time = start_time + (frame_count * frame_duration)
TargetTime_mut(start, count) == start + (count * frame_duration) - 1
TargetTime(start, count) == start + (count * frame_duration)

\* if wait_time > 0: await asyncio.sleep(wait_time)
MustSleep_mut(wait_time) == wait_time >= 0
MustSleep(wait_time) == wait_time > 0

\* if v_frame is None
IsEndOfStream_mut(v, a) == v = None \/ a = None
IsEndOfStream(v, a) == v = None

\* Samples of the audio frames in a sequence of queue items.
RECURSIVE SamplesIn(_)
SamplesIn(h) ==
    IF h = << >> THEN 0 ELSE h[Len(h)].samples + SamplesIn(SubSeq(h, 1, Len(h) - 1))

\* start_time = time.time(); frame_count = 0
PacerStart ==
    /\ pacerPc = "start"
    /\ start_time' = now
    /\ frame_count' = 0
    /\ pacerPc' = "get_v"
    /\ UNCHANGED <<v_frame, a_frame, wakeAt>>
    /\ UNCHANGED <<queueVars, slowHistV, slowHistA>>
    /\ UNCHANGED PacerFrame

\* v_frame = await raw_v_q.get()
PacerGetV_mut ==
    /\ pacerPc = "get_v"
    /\ IF raw_v_q = << >>
       THEN v_frame' = Unset /\ raw_v_q' = raw_v_q
       ELSE v_frame' = Head(raw_v_q) /\ raw_v_q' = Tail(raw_v_q)
    /\ pacerPc' = "get_a"
    /\ UNCHANGED <<start_time, frame_count, a_frame, wakeAt>>
    /\ UNCHANGED <<raw_a_q, slow_v_q, slow_a_q, slowHistV, slowHistA>>
    /\ UNCHANGED PacerFrame
PacerGetV ==
    /\ pacerPc = "get_v"
    /\ raw_v_q # << >>
    /\ v_frame' = Head(raw_v_q)
    /\ raw_v_q' = Tail(raw_v_q)
    /\ pacerPc' = "get_a"
    /\ UNCHANGED <<start_time, frame_count, a_frame, wakeAt>>
    /\ UNCHANGED <<raw_a_q, slow_v_q, slow_a_q, slowHistV, slowHistA>>
    /\ UNCHANGED PacerFrame

\* a_frame = await raw_a_q.get(); then the end-of-stream test and, for a
\* real pair, target_time and wait_time against time.time().
PacerGetA_mut ==
    /\ pacerPc = "get_a"
    /\ IF IsEndOfStream(v_frame, v_frame)
       THEN /\ pacerPc' = "eos_v"
            /\ UNCHANGED <<a_frame, raw_a_q, wakeAt>>
       ELSE /\ raw_a_q # << >>
            /\ a_frame' = Head(raw_a_q)
            /\ raw_a_q' = Tail(raw_a_q)
            /\ LET target_time == TargetTime(start_time, frame_count)
                   wait_time == target_time - now
               IN  IF MustSleep(wait_time)
                   THEN pacerPc' = "sleep" /\ wakeAt' = now + wait_time
                   ELSE pacerPc' = "put_v" /\ UNCHANGED wakeAt
    /\ UNCHANGED <<start_time, frame_count, v_frame>>
    /\ UNCHANGED <<raw_v_q, slow_v_q, slow_a_q, slowHistV, slowHistA>>
    /\ UNCHANGED PacerFrame
PacerGetA ==
    /\ pacerPc = "get_a"
    /\ raw_a_q # << >>
    /\ a_frame' = Head(raw_a_q)
    /\ raw_a_q' = Tail(raw_a_q)
    /\ IF IsEndOfStream(v_frame, Head(raw_a_q))
       THEN /\ pacerPc' = "eos_v"
            /\ UNCHANGED wakeAt
       ELSE LET target_time == TargetTime(start_time, frame_count)
                wait_time == target_time - now
            IN  IF MustSleep(wait_time)
                THEN pacerPc' = "sleep" /\ wakeAt' = now + wait_time
                ELSE pacerPc' = "put_v" /\ UNCHANGED wakeAt
    /\ UNCHANGED <<start_time, frame_count, v_frame>>
    /\ UNCHANGED <<raw_v_q, slow_v_q, slow_a_q, slowHistV, slowHistA>>
    /\ UNCHANGED PacerFrame

\* asyncio.sleep(wait_time) returns once wait_time has elapsed
SleepOver_mut(t, wake) == t + 1 >= wake
SleepOver(t, wake) == t >= wake

PacerWake ==
    /\ pacerPc = "sleep"
    /\ SleepOver(now, wakeAt)
    /\ wakeAt' = 0
    /\ pacerPc' = "put_v"
    /\ UNCHANGED <<start_time, frame_count, v_frame, a_frame>>
    /\ UNCHANGED <<queueVars, slowHistV, slowHistA>>
    /\ UNCHANGED PacerFrame

PacerPutV_mut ==
    /\ pacerPc = "put_v"
    /\ slow_v_q' = <<v_frame>> \o slow_v_q
    /\ slowHistV' = Append(slowHistV, v_frame)
    /\ pacerPc' = "put_a"
    /\ UNCHANGED <<start_time, frame_count, v_frame, a_frame, wakeAt>>
    /\ UNCHANGED <<raw_v_q, raw_a_q, slow_a_q, slowHistA>>
    /\ UNCHANGED PacerFrame

\* await slow_v_q.put(v_frame)
PacerPutV ==
    /\ pacerPc = "put_v"
    /\ slow_v_q' = Append(slow_v_q, v_frame)
    /\ slowHistV' = Append(slowHistV, v_frame)
    /\ pacerPc' = "put_a"
    /\ UNCHANGED <<start_time, frame_count, v_frame, a_frame, wakeAt>>
    /\ UNCHANGED <<raw_v_q, raw_a_q, slow_a_q, slowHistA>>
    /\ UNCHANGED PacerFrame

PacerPutA_mut ==
    /\ pacerPc = "put_a"
    /\ frame_count' = frame_count + 1
    /\ pacerPc' = "get_v"
    /\ UNCHANGED <<start_time, v_frame, a_frame, wakeAt>>
    /\ UNCHANGED <<queueVars, slowHistV, slowHistA>>
    /\ UNCHANGED PacerFrame

\* await slow_a_q.put(a_frame); frame_count += 1
PacerPutA ==
    /\ pacerPc = "put_a"
    /\ slow_a_q' = Append(slow_a_q, a_frame)
    /\ slowHistA' = Append(slowHistA, a_frame)
    /\ frame_count' = frame_count + 1
    /\ pacerPc' = "get_v"
    /\ UNCHANGED <<start_time, v_frame, a_frame, wakeAt>>
    /\ UNCHANGED <<raw_v_q, raw_a_q, slow_v_q, slowHistV>>
    /\ UNCHANGED PacerFrame

\* await slow_v_q.put(None)
PacerEosV_mut ==
    /\ pacerPc = "eos_v"
    /\ pacerPc' = "eos_a"
    /\ UNCHANGED <<start_time, frame_count, v_frame, a_frame, wakeAt>>
    /\ UNCHANGED <<raw_v_q, raw_a_q, slow_v_q, slow_a_q, slowHistV, slowHistA>>
    /\ UNCHANGED PacerFrame
PacerEosV ==
    /\ pacerPc = "eos_v"
    /\ slow_v_q' = Append(slow_v_q, None)
    /\ slowHistV' = Append(slowHistV, None)
    /\ pacerPc' = "eos_a"
    /\ UNCHANGED <<start_time, frame_count, v_frame, a_frame, wakeAt>>
    /\ UNCHANGED <<raw_v_q, raw_a_q, slow_a_q, slowHistA>>
    /\ UNCHANGED PacerFrame

PacerEosA_mut ==
    /\ pacerPc = "eos_a"
    /\ pacerPc' = "done"
    /\ start_time' = 0 /\ frame_count' = 0 /\ wakeAt' = 0
    /\ v_frame' = Unset /\ a_frame' = Unset
    /\ UNCHANGED <<queueVars, slowHistV, slowHistA>>
    /\ UNCHANGED PacerFrame

\* await slow_a_q.put(None); break: the task returns and its locals are gone
PacerEosA ==
    /\ pacerPc = "eos_a"
    /\ slow_a_q' = Append(slow_a_q, None)
    /\ slowHistA' = Append(slowHistA, None)
    /\ pacerPc' = "done"
    /\ start_time' = 0 /\ frame_count' = 0 /\ wakeAt' = 0
    /\ v_frame' = Unset /\ a_frame' = Unset
    /\ UNCHANGED <<raw_v_q, raw_a_q, slow_v_q, slowHistV>>
    /\ UNCHANGED PacerFrame

Pacer ==
    \/ PacerStart \/ PacerGetV \/ PacerGetA \/ PacerWake
    \/ PacerPutV \/ PacerPutA \/ PacerEosV \/ PacerEosA

\* -------------------------------------------------------- consumer tracks
ConsFrame == <<inputVars, now, closed, raw_v_q, raw_a_q, prodVars, pacerVars, histVars>>

SlowQ(k) == IF k = "video" THEN slow_v_q ELSE slow_a_q

\* if frame is None
RecvIsEnd_mut(frame) == FALSE
RecvIsEnd(frame) == frame = None

\* The transport calls recv() while the paced queue is empty: the coroutine
\* suspends in "await self.queue.get()".  recv() does not look at the
\* stopped flag.
RecvBlock(k) ==
    /\ recvPc[k] = "idle"
    /\ SlowQ(k) = << >>
    /\ recvPc' = [recvPc EXCEPT ![k] = "get"]
    /\ UNCHANGED <<stopped, received, slow_v_q, slow_a_q>>
    /\ UNCHANGED ConsFrame

\* queue.get() delivers the head of the paced queue, at once when recv() is
\* called on a non-empty queue or when the suspended get is resumed: None
\* stops the track and raises MediaStreamError, a frame is returned.
RecvReturn(k) ==
    /\ SlowQ(k) # << >>
    /\ LET frame == Head(SlowQ(k))
       IN  IF RecvIsEnd(frame)
           THEN /\ stopped' = [stopped EXCEPT ![k] = TRUE]
                /\ UNCHANGED received
           ELSE /\ received' = [received EXCEPT ![k] = Append(@, frame)]
                /\ UNCHANGED stopped
    /\ IF k = "video"
       THEN slow_v_q' = Tail(slow_v_q) /\ UNCHANGED slow_a_q
       ELSE slow_a_q' = Tail(slow_a_q) /\ UNCHANGED slow_v_q
    /\ recvPc' = [recvPc EXCEPT ![k] = "idle"]
    /\ UNCHANGED ConsFrame

Consumer == \E k \in Kinds : RecvBlock(k) \/ RecvReturn(k)

\* ---------------------------------------------------------------- session
\* on_iceconnectionstatechange with state "failed": pc.close() and
\* pcs.discard(pc).  No reference to the producer or pacer task is kept.
Close ==
    /\ ~closed
    /\ closed' = TRUE
    /\ UNCHANGED <<inputVars, now, queueVars, prodVars, pacerVars, consVars, histVars>>

Next == Tick \/ Producer \/ Pacer \/ Consumer \/ Close

Spec == Init /\ [][Next]_vars

\* A session that is never closed.
LiveNext == Tick \/ Producer \/ Pacer \/ Consumer

\* Fair scheduling of the event loop: every task that can run does run, the
\* clock advances, and each track keeps being pulled by its sender.
LiveSpec ==
    /\ Init /\ [][LiveNext]_vars
    /\ WF_vars(Tick)
    /\ WF_vars(Producer)
    /\ WF_vars(Pacer)
    /\ \A k \in Kinds : WF_vars(RecvBlock(k) \/ RecvReturn(k))

\* Producer, pacer and clock alone, fairly scheduled: the paced queues are
\* unbounded, so what the tracks pull never reaches back to the pacer.
PacerLiveNext == Tick \/ Producer \/ Pacer

PacerLiveSpec ==
    /\ Init /\ [][PacerLiveNext]_vars
    /\ WF_vars(Tick)
    /\ WF_vars(Producer)
    /\ WF_vars(Pacer)

\* strict_pacer on its own: the coroutine is handed two raw queues that
\* already hold n video frames and m audio frames, each followed by one
\* None, and nothing is put on them afterwards.
RawVideo(n) == [i \in 1..(n + 1) |-> IF i <= n THEN MkVideoFrame(i - 1) ELSE None]
RawAudio(m) == [i \in 1..(m + 1) |-> IF i <= m THEN MkAudioFrame(i - 1) ELSE None]

PacerAloneInit ==
    /\ total_frames \in 0..MaxImages
    /\ raw_v_q = RawVideo(total_frames)
    /\ raw_a_q \in {RawAudio(m) : m \in 0..MaxImages}
    /\ rawHistV = raw_v_q /\ rawHistA = raw_a_q
    /\ now = ClockOrigin
    /\ closed = FALSE
    /\ slow_v_q = << >> /\ slow_a_q = << >>
    /\ prodPc = "done"
    /\ packetsRead = 0 /\ packet = << >> /\ fifo = 0
    /\ frame_idx = 0 /\ pts_counter = 0
    /\ audio_frame = Unset /\ video_frame = Unset
    /\ pacerPc = "start"
    /\ start_time = 0 /\ frame_count = 0
    /\ v_frame = Unset /\ a_frame = Unset /\ wakeAt = 0
    /\ recvPc = [k \in Kinds |-> "idle"]
    /\ stopped = [k \in Kinds |-> FALSE]
    /\ received = [k \in Kinds |-> << >>]
    /\ slowHistV = << >> /\ slowHistA = << >>
    /\ audioLeft = FALSE

PacerAloneNext == Tick \/ Pacer

PacerAloneSpec ==
    /\ PacerAloneInit /\ [][PacerAloneNext]_vars
    /\ WF_vars(Tick)
    /\ WF_vars(Pacer)

\* ------------------------------------------------------- derived notions
Frames(h) == SelectSeq(h, IsFrame)
Range(h) == {h[i] : i \in 1..Len(h)}
Last(h) == h[Len(h)]
IsPrefix(s, t) == Len(s) <= Len(t) /\ SubSeq(t, 1, Len(s)) = s
RawHist(k) == IF k = "video" THEN rawHistV ELSE rawHistA
SlowHist(k) == IF k = "video" THEN slowHistV ELSE slowHistA
RawQ(k) == IF k = "video" THEN raw_v_q ELSE raw_a_q

\* t is no earlier than start plus the presentation time pts / tb of f.
NotBefore(t, start, f) == (t - start) * f.tb >= f.pts * TicksPerSec

\* ======================================================================
\* Claims
\* ======================================================================

\* A history of pushes holds the sentinel at most once, as its last element.
SentinelOnlyLast(h) == \A i \in 1..Len(h) : h[i] = None => i = Len(h)

\* C1 -- Sentinel termination: a paced buffer never receives anything after
\* its EndOfStream (so it holds at most one, as the last element), and once
\* the producer has run to completion and the pacer has halted each paced
\* buffer has received exactly one EndOfStream, after every real frame the
\* producer pushed of that kind.
C1_SentinelTermination ==
    /\ \A k \in Kinds : SentinelOnlyLast(SlowHist(k))
    /\ (prodPc = "done" /\ pacerPc = "done") =>
          \A k \in Kinds :
             /\ SlowHist(k) # << >>
             /\ Last(SlowHist(k)) = None
             /\ Frames(SlowHist(k)) = Frames(RawHist(k))

C1_Witness ==
    /\ prodPc = "done" /\ pacerPc = "done"
    /\ Len(slowHistV) = 3 /\ Len(slowHistA) = 3

\* C2 -- Order preservation: at every point the frames a consumer track has
\* returned are a prefix of the frames the producer pushed to the raw buffer
\* of that kind, and once the track has seen EndOfStream they are all of
\* them.
C2_OrderPreserved ==
    \A k \in Kinds :
       /\ IsPrefix(received[k], Frames(RawHist(k)))
       /\ stopped[k] => received[k] = Frames(RawHist(k))

C2_Witness ==
    /\ stopped["video"] /\ stopped["audio"]
    /\ Len(received["video"]) = 2 /\ Len(received["audio"]) = 2

\* C3 -- Releases are never early: a frame is pushed to its paced buffer no
\* earlier than start_time plus its presentation time (for audio, also no
\* earlier than start_time plus the samples already released over
\* AUDIO_RATE); start_time is set when the pacer starts and stays as it is
\* for as long as the pacer runs; and the pacer goes to sleep only when the
\* pair's presentation time is still ahead.
C3_NeverEarly ==
    [][ /\ (slowHistV' # slowHistV /\ IsFrame(Last(slowHistV')))
            => NotBefore(now, start_time, Last(slowHistV'))
        /\ (slowHistA' # slowHistA /\ IsFrame(Last(slowHistA')))
            => /\ NotBefore(now, start_time, Last(slowHistA'))
               /\ (now - start_time) * AUDIO_RATE >= SamplesIn(slowHistA) * TicksPerSec
        /\ (pacerPc # "start" /\ pacerPc' # "done") => start_time' = start_time
        /\ (pacerPc # "sleep" /\ pacerPc' = "sleep")
            => /\ ~NotBefore(now, start_time, v_frame)
               /\ ~NotBefore(now, start_time, a_frame')
      ]_vars

\* The second pair has been released exactly at its target, and so after a
\* wait.
C3_Witness ==
    /\ Len(slowHistV) = 2 /\ Len(slowHistA) = 2
    /\ IsFrame(Last(slowHistA))
    /\ now = start_time + frame_duration

\* C4 -- Video/audio sync: when a video frame is pushed to the paced video
\* buffer its presentation time pts / tb is at most the audio clock, the
\* samples already pushed to the paced audio buffer over AUDIO_RATE.
C4_VideoNotAheadOfAudio ==
    [][ (slowHistV' # slowHistV /\ IsFrame(Last(slowHistV')))
           => Last(slowHistV').pts * AUDIO_RATE <= SamplesIn(slowHistA) * Last(slowHistV').tb
      ]_vars

\* The second video frame (pts 3600) has just been pushed.
C4_Witness ==
    /\ pacerPc = "put_a"
    /\ Len(slowHistV) = 2
    /\ Last(slowHistV).pts = VIDEO_TICKS

\* C5 -- Consumer terminal state is idempotent: a track that has popped
\* EndOfStream and stopped never suspends on its paced buffer again.
C5_StoppedNeverBlocks ==
    \A k \in Kinds : ~(stopped[k] /\ recvPc[k] = "get")

C7_SentinelOnEveryExit ==
    prodPc \in {"done", "failed"} =>
        /\ None \in Range(rawHistV)
        /\ None \in Range(rawHistA)

\* C8 -- Session closure terminates the pipeline: once the session is
\* closed neither the producer nor the pacer goes on working, so no further
\* frame is pushed to a raw or a paced buffer.
C8_NoWorkAfterClose ==
    [][ closed =>
          /\ Frames(rawHistV') = Frames(rawHistV)
          /\ Frames(rawHistA') = Frames(rawHistA)
          /\ Frames(slowHistV') = Frames(slowHistV)
          /\ Frames(slowHistA') = Frames(slowHistA)
      ]_vars

\* C9 -- Normal termination is reached: under fair scheduling, once the
\* producer has run to completion the pacer eventually halts with
\* EndOfStream pushed to both paced buffers and both consumer tracks
\* eventually report stream-ended.
C9_TerminationReached ==
    (prodPc = "done") ~>
        /\ pacerPc = "done"
        /\ \A k \in Kinds :
              /\ SlowHist(k) # << >> /\ Last(SlowHist(k)) = None
              /\ stopped[k]

C9_Witness ==
    /\ prodPc = "done" /\ pacerPc = "done"
    /\ stopped["video"] /\ stopped["audio"]
    /\ Len(received["video"]) >= 1

\* Items the pacer has taken off a raw buffer so far.
Popped(k) == Len(RawHist(k)) - Len(RawQ(k))

\* C10 -- No starvation: under fair scheduling and an advancing clock,
\* whenever both raw buffers are non-empty the pacer eventually pushes the
\* item at the head of each to the corresponding paced buffer (buffers are
\* FIFO, so the head is released once more items have been pushed to the
\* paced buffer than had been popped from the raw one).
C10_NoStarvation ==
    \A k \in Kinds : \A n \in 0..(MaxImages + 1) :
        (raw_v_q # << >> /\ raw_a_q # << >> /\ Popped(k) = n)
            ~> (Len(SlowHist(k)) > n /\ SlowHist(k)[n + 1] = RawHist(k)[n + 1])

\* Both raw buffers hold items while the pacer has already released a pair.
C10_Witness ==
    /\ raw_v_q # << >> /\ raw_a_q # << >>
    /\ Len(slowHistV) >= 1 /\ Len(slowHistA) >= 1

\* Number of end-of-stream markers in a sequence of queue items.
SentinelCount(h) == Cardinality({i \in 1..Len(h) : h[i] = None})

\* C11 -- Producer end-of-stream marking: when the producer completes it has
\* pushed exactly one EndOfStream to the raw video buffer and exactly one to
\* the raw audio buffer, each as the last element ever pushed to that
\* buffer; no buffer ever holds a second marker or an item after its marker.
C11_ProducerMarksEnd ==
    \A k \in Kinds :
        /\ SentinelCount(RawHist(k)) <= 1
        /\ SentinelOnlyLast(RawHist(k))
        /\ prodPc = "done" =>
              /\ SentinelCount(RawHist(k)) = 1
              /\ Last(RawHist(k)) = None

\* The producer completed after pushing real frames to both raw buffers.
C11_Witness ==
    /\ prodPc = "done"
    /\ \A k \in Kinds : Len(Frames(RawHist(k))) = MaxImages

\* C12 -- Producer timestamps: the k-th audio chunk pushed (k from 0) has
\* presentation timestamp k * CHUNK_SIZE on the 1/AUDIO_RATE clock and the
\* k-th video frame has k * 3600 on the 1/90000 clock; both sequences are
\* strictly increasing and have no gaps.
C12_ProducerTimestamps ==
    /\ \A i \in 1..Len(Frames(rawHistA)) :
          /\ Frames(rawHistA)[i].pts = (i - 1) * 1920
          /\ Frames(rawHistA)[i].tb = 48000
    /\ \A i \in 1..Len(Frames(rawHistV)) :
          /\ Frames(rawHistV)[i].pts = (i - 1) * 3600
          /\ Frames(rawHistV)[i].tb = 90000
    /\ \A k \in Kinds : \A i \in 1..(Len(Frames(RawHist(k))) - 1) :
          Frames(RawHist(k))[i].pts < Frames(RawHist(k))[i + 1].pts

\* Two chunks and two images have been stamped and pushed.
C12_Witness ==
    /\ Len(Frames(rawHistA)) >= 2 /\ Len(Frames(rawHistV)) >= 2
    /\ Frames(rawHistA)[2].pts = 1920 /\ Frames(rawHistV)[2].pts = 3600

C14_HaltsOnlyWhenDrained ==
    \A k \in Kinds :
        (pacerPc \in {"eos_v", "eos_a", "done"} \/ None \in Range(SlowHist(k))) =>
            /\ RawHist(k) # << >> /\ Last(RawHist(k)) = None
            /\ RawQ(k) = << >>
            /\ Frames(SlowHist(k)) = Frames(RawHist(k))

\* The pacer has halted after real frames of both kinds went through it.
C14_Witness ==
    /\ pacerPc = "done"
    /\ \A k \in Kinds : Len(Frames(SlowHist(k))) >= 1 /\ Last(SlowHist(k)) = None

C16_PacedLockstep ==
    /\ Len(Frames(slowHistV)) - Len(Frames(slowHistA)) \in {0, 1}
    /\ pacerPc # "done" => frame_count = Len(Frames(slowHistA))
    /\ (None \in Range(slowHistV)) # (None \in Range(slowHistA)) => pacerPc = "eos_a"
    /\ pacerPc \in {"eos_v", "eos_a"} =>
          Len(Frames(slowHistV)) = Len(Frames(slowHistA))

\* The second video frame is in the paced buffer, its audio frame not yet.
C16_Witness ==
    /\ pacerPc = "put_a" /\ frame_count = 1
    /\ Len(Frames(slowHistV)) = 2 /\ Len(Frames(slowHistA)) = 1

\* Samples decoded from the audio source so far: those sliced off as chunks
\* (one chunk per frame_idx step) and those still in the fifo.
SamplesDecoded == frame_idx * CHUNK_SIZE + fifo
Min(a, b) == IF a <= b THEN a ELSE b

\* C17 -- The producer emits in pairs: the number of audio frames pushed to
\* raw audio minus the number of video frames pushed to raw video is
\* always 0 or 1; when the producer leaves its loops both numbers equal the
\* minimum of the number of images and the number of full chunks in the
\* audio it has decoded (it stops decoding only at the end of the source or
\* once that minimum is the number of images); no audio chunk is produced
\* once the images are exhausted.
C17_ProducerPairs ==
    /\ Len(Frames(rawHistA)) - Len(Frames(rawHistV)) \in {0, 1}
    /\ Len(Frames(rawHistA)) <= total_frames
    /\ prodPc \in {"eos_a", "eos_v"} =>
          \A k \in Kinds :
              Len(Frames(RawHist(k))) = Min(total_frames, SamplesDecoded \div CHUNK_SIZE)
    /\ prodPc = "done" => Len(Frames(rawHistA)) = Len(Frames(rawHistV))

\* The audio ran out first: one full chunk for two images.
C17_Witness ==
    /\ prodPc = "eos_v" /\ total_frames = 2 /\ fifo < CHUNK_SIZE
    /\ Len(Frames(rawHistA)) = 1 /\ Len(Frames(rawHistV)) = 1

\* C18 -- Pairing at the pacer, in the composed system: the audio item the
\* pacer pops in the iteration in which it pops the video EndOfStream is
\* the audio EndOfStream; whenever the pacer has popped the k-th item of
\* raw video, the k-th item of raw audio has already been pushed, so the
\* audio pop finds its item; no real audio frame is discarded at the end.
C18_AudioPairedWithVideo ==
    /\ pacerPc \in {"eos_v", "eos_a"} => v_frame = None /\ a_frame = None
    /\ Popped("video") <= Len(rawHistA)
    /\ pacerPc = "get_a" => raw_a_q # << >>
    /\ (pacerPc = "get_a" /\ v_frame = None) => Head(raw_a_q) = None
    /\ pacerPc = "done" => Frames(slowHistA) = Frames(rawHistA)

\* After a real pair, the pacer holds both end-of-stream markers.
C18_Witness ==
    /\ pacerPc = "eos_v" /\ frame_count >= 1
    /\ v_frame = None /\ a_frame = None

\* C19 -- Chunk size: every audio frame pushed holds exactly CHUNK_SIZE
\* (48000 / 25 = 1920) samples; a chunk is taken off the accumulator only
\* when it holds at least CHUNK_SIZE samples and leaves exactly CHUNK_SIZE
\* fewer; a residue shorter than CHUNK_SIZE is never emitted.
C19_FullChunksOnly ==
    [][ /\ \A i \in 1..Len(Frames(rawHistA')) : Frames(rawHistA')[i].samples = 1920
        /\ CHUNK_SIZE = 1920
        /\ fifo' >= 0
        /\ (fifo' < fifo /\ prodPc' \notin {"done", "failed"}) =>
              /\ fifo >= 1920
              /\ fifo' = fifo - 1920
              /\ audio_frame'.samples = 1920
        /\ (prodPc = "eos_a" /\ prodPc' = "eos_v") =>
              /\ rawHistA' = Append(rawHistA, None)
              /\ fifo' = fifo ]_vars

\* A chunk has been pushed and a residue shorter than a chunk is left over.
C19_Witness ==
    /\ Len(Frames(rawHistA)) >= 1
    /\ fifo > 0 /\ fifo < CHUNK_SIZE

====
